---- MODULE Spec2Model ----
(***************************************************************************)
(* Model of the contractor-license verifier: scraper.verify_license (the   *)
(* orchestrator), its two site drivers, scraper.verify_batch and the two   *)
(* endpoints of main.py that call them.                                    *)
(*                                                                         *)
(* Python strings are sequences of one-character strings, so that the      *)
(* f-string that builds the cache key, str.upper and str.lower are         *)
(* computed and not assumed.  An Optional[str] is a record [some, v].      *)
(***************************************************************************)
EXTENDS Integers, Sequences, FiniteSets, TLC

\* Bounds of the model.
MaxTasks == 2       \* verify_license coroutines created in one behaviour

-----------------------------------------------------------------------------
\* Strings

None == [some |-> FALSE, v |-> <<>>]
Some(s) == [some |-> TRUE, v |-> s]

\* Python truthiness of an Optional[str]: None and "" are falsy.
Truthy(x) == x.some /\ x.v # <<>>

\* str(x) as an f-string renders it: None becomes the text "None".
Str(x) == IF x.some THEN x.v ELSE <<"N", "o", "n", "e">>

Lowers == <<"a", "c", "d", "e", "f", "i", "l", "n", "p", "r", "t", "v", "x", "z">>
Uppers == <<"A", "C", "D", "E", "F", "I", "L", "N", "P", "R", "T", "V", "X", "Z">>

UpperChar(c) ==
    IF \E i \in 1..Len(Lowers) : Lowers[i] = c
    THEN Uppers[CHOOSE i \in 1..Len(Lowers) : Lowers[i] = c]
    ELSE c

LowerChar(c) ==
    IF \E i \in 1..Len(Uppers) : Uppers[i] = c
    THEN Lowers[CHOOSE i \in 1..Len(Uppers) : Uppers[i] = c]
    ELSE c

upper(s) == [i \in 1..Len(s) |-> UpperChar(s[i])]
lower(s) == [i \in 1..Len(s) |-> LowerChar(s[i])]

\* Python's `needle in hay` on strings.
Contains(hay, needle) ==
    \E i \in 0..(Len(hay) - Len(needle)) :
        \A j \in 1..Len(needle) : hay[i + j] = needle[j]

-----------------------------------------------------------------------------
\* State registry

CA == <<"C", "A">>
TX == <<"T", "X">>
FL == <<"F", "L">>

\* list(STATE_CONFIGS.keys()), in the order the literal gives them.
StateCodes == <<CA, TX, FL>>

\* As STATE_CONFIGS, with every state on the Interactive method.
STATE_CONFIGS_all_playwright ==
    [s \in {CA, TX, FL} |-> [method |-> "playwright"]]

STATE_CONFIGS ==
    [s \in {CA, TX, FL} |->
        IF s = FL THEN [method |-> "requests"] ELSE [method |-> "playwright"]]

-----------------------------------------------------------------------------
\* Result cache (module `cache`, imported by scraper.py)

get_cached_result(c, key) ==
    IF key \in DOMAIN c THEN [hit |-> TRUE, val |-> c[key]] ELSE [hit |-> FALSE]

store_result(c, key, r) ==
    [k \in (DOMAIN c) \cup {key} |-> IF k = key THEN r ELSE c[k]]

-----------------------------------------------------------------------------
\* Messages: a fixed text followed by an interpolated argument.

Msg(text, arg) == [text |-> text, arg |-> arg]

\* What a function call ends with.
Return(val) == [kind |-> "return", val |-> val]
Raise(msg) == [kind |-> "raise", msg |-> msg]
Pending == [kind |-> "pending"]

-----------------------------------------------------------------------------
\* Interactive driver (verify_license_playwright)

\* What the page gives for one configured selector: the element's text, no
\* element (query_selector returns None), or a fault while reading it.
Text(t) == [kind |-> "text", text |-> t]
Missing == [kind |-> "missing"]
Faulty == [kind |-> "fault"]

\* The result pages the external site may show.
Pages ==
    { [status |-> Text("Active"), name |-> Text("Acme Co"), expires |-> Text("2030-01-01")],
      [status |-> Text("ACTIVE"), name |-> Missing, expires |-> Faulty],
      [status |-> Missing, name |-> Faulty, expires |-> Missing],
      [status |-> Faulty, name |-> Text("Acme Co"), expires |-> Text("2030-01-01")] }

\* The awaited steps of the driver, in program order, and the ones inside
\* its try block.
PwSteps == <<"start", "launch", "new_page", "goto", "fill", "click", "wait",
             "screenshot", "close">>
PwTrySteps == {"goto", "fill", "click", "wait", "screenshot", "close"}
PwFaults == {"none"} \cup {PwSteps[i] : i \in 1..Len(PwSteps)}

\* As ExtractField, with a missing element treated like a fault.
ExtractField_missing_not_found(result_data, field, o) ==
    CASE o.kind = "text" -> [result_data EXCEPT ![field] = Some(o.text)]
      [] OTHER -> [result_data EXCEPT ![field] = Some("Not found")]

\* One pass of the loop over result_selectors: the field is set to the text,
\* left unset when there is no element, set to "Not found" on a fault.
ExtractField(result_data, field, o) ==
    CASE o.kind = "text" -> [result_data EXCEPT ![field] = Some(o.text)]
      [] o.kind = "missing" -> result_data
      [] OTHER -> [result_data EXCEPT ![field] = Some("Not found")]

ExtractAll(page) ==
    LET d0 == [f \in {"status", "name", "expires"} |-> None]
        d1 == ExtractField(d0, "status", page.status)
        d2 == ExtractField(d1, "name", page.name)
    IN  ExtractField(d2, "expires", page.expires)

\* dict.get(key, default)
Get(d, key, default) == IF d[key].some THEN d[key].v ELSE default

PlaywrightResult(license_number, page) ==
    LET result_data == ExtractAll(page)
    IN  [status |-> Get(result_data, "status", "Unknown"),
         license_number |-> license_number,
         business_name |-> Get(result_data, "name", "Unknown"),
         issuing_authority |-> "State Licensing Board",
         expires |-> Get(result_data, "expires", "Unknown"),
         screenshot_data |-> "png",
         verified |-> TRUE]

\* The step at which the run faults: `fault` when that step is executed
\* (page.fill is skipped for a falsy license_number), otherwise none.
PwFaultAt(license_number, fault) ==
    IF fault = "fill" /\ ~Truthy(license_number) THEN "none" ELSE fault

\* What the run ends with.  A fault before the try block propagates as it
\* is; one inside it is wrapped by the handler, unless the handler's own
\* browser.close() faults, which then propagates instead.
PwOutcome(license_number, page, f, hfault) ==
    CASE f = "none" -> Return(PlaywrightResult(license_number, page))
      [] f \in PwTrySteps /\ ~hfault ->
            Raise(Msg("Error scraping license data: ", <<f>>))
      [] f \in PwTrySteps /\ hfault -> Raise(Msg("", <<"close">>))
      [] OTHER -> Raise(Msg("", <<f>>))

verify_license_playwright(state_config, license_number, business_name, page, fault, hfault) ==
    PwOutcome(license_number, page, PwFaultAt(license_number, fault), hfault)

-----------------------------------------------------------------------------
\* Form-submit driver (verify_license_requests)

W_active == <<"a", "c", "t", "i", "v", "e">>
W_expired == <<"e", "x", "p", "i", "r", "e", "d">>
W_invalid == <<"i", "n", "v", "a", "l", "i", "d">>

\* The response bodies the external site may send.
Bodies ==
    { <<"A", "c", "t", "i", "v", "e">>,
      <<"E", "X", "P", "I", "R", "E", "D">>,
      <<"I", "n", "v", "a", "l", "i", "d">>,
      <<"n", "/", "a">>,
      <<"L", "i", "c", "e", "n", "s", "e", " ", "E", "X", "P", "I", "R", "E", "D", " ",
        "f", "o", "r", " ", "t", "h", "i", "s", " ",
        "c", "o", "n", "t", "r", "a", "c", "t", "o", "r">>,
      <<"e", "x", "p", "i", "r", "e", "d", " ", "i", "n", "a", "c", "t", "i", "v", "e">> }

RqFaults == {"none", "post", "text"}

\* html_content[:1000]
RawHtmlLimit == 1000
Prefix(s, n) == SubSeq(s, 1, IF Len(s) < n THEN Len(s) ELSE n)

\* As Classify, with the test for "expired" made first.
Classify_expired_first(html_content) ==
    IF Contains(lower(html_content), W_expired) THEN "Expired"
    ELSE IF Contains(lower(html_content), W_active) THEN "Active"
    ELSE IF Contains(lower(html_content), W_invalid) THEN "Invalid"
    ELSE "Unknown"

Classify(html_content) ==
    IF Contains(lower(html_content), W_active) THEN "Active"
    ELSE IF Contains(lower(html_content), W_expired) THEN "Expired"
    ELSE IF Contains(lower(html_content), W_invalid) THEN "Invalid"
    ELSE "Unknown"

RequestsResult(license_number, html_content) ==
    [status |-> Classify(html_content),
     license_number |-> license_number,
     business_name |-> "Unknown",
     issuing_authority |-> "State Licensing Board",
     expires |-> "Unknown",
     verified |-> TRUE,
     raw_html |-> Prefix(html_content, RawHtmlLimit)]

verify_license_requests(state_config, license_number, business_name, body, fault) ==
    IF fault = "none"
    THEN Return(RequestsResult(license_number, body))
    ELSE Raise(Msg("Error verifying license: ", <<fault>>))

-----------------------------------------------------------------------------
\* Orchestrator (verify_license)

\* f"{state}_{license_number}_{business_name}"
cache_key(state, license_number, business_name) ==
    state \o <<"_">> \o Str(license_number) \o <<"_">> \o Str(business_name)

ErrorResult(message, license_number) ==
    [status |-> "Error",
     message |-> message,
     license_number |-> license_number,
     verified |-> FALSE]

UnsupportedResult(state) ==
    [status |-> "Unsupported",
     message |-> Msg("License verification not yet supported for ", state),
     supported_states |-> StateCodes,
     verified |-> FALSE]

\* As Validate, with the second check left out.
Validate_state_only(q) ==
    IF q.state = <<>>
    THEN Raise(Msg("State is required", <<>>))
    ELSE Pending

\* The checks of lines 143-148, in order: the exception raised, if any.
Validate(q) ==
    IF q.state = <<>>
    THEN Raise(Msg("State is required", <<>>))
    ELSE IF ~Truthy(q.license_number) /\ ~Truthy(q.business_name)
    THEN Raise(Msg("Either license number or business name is required", <<>>))
    ELSE Pending

\* As verify_license_begin, without the cache lookup.
verify_license_begin_no_lookup(c, q) ==
    LET state == upper(q.state)
    IN  IF Validate(q).kind = "raise"
        THEN [pc |-> "done", ret |-> Validate(q), drv |-> "none"]
        ELSE IF state \notin DOMAIN STATE_CONFIGS
        THEN [pc |-> "done", ret |-> Return(UnsupportedResult(state)), drv |-> "none"]
        ELSE [pc |-> "driver", ret |-> Pending, drv |-> STATE_CONFIGS[state].method]

\* verify_license up to its first await: the cache lookup, the validation and
\* the registry lookup.  It ends the call (a return or a raise) or leaves it
\* awaiting the driver named by the state's method.
verify_license_begin(c, q) ==
    LET cached == get_cached_result(c, cache_key(q.state, q.license_number, q.business_name))
        state == upper(q.state)
    IN  IF cached.hit
        THEN [pc |-> "done", ret |-> Return(cached.val), drv |-> "none"]
        ELSE IF Validate(q).kind = "raise"
        THEN [pc |-> "done", ret |-> Validate(q), drv |-> "none"]
        ELSE IF state \notin DOMAIN STATE_CONFIGS
        THEN [pc |-> "done", ret |-> Return(UnsupportedResult(state)), drv |-> "none"]
        ELSE [pc |-> "driver", ret |-> Pending, drv |-> STATE_CONFIGS[state].method]

\* As verify_license_end, without the try/except around the driver call.
verify_license_end_reraise(c, q, out) ==
    IF out.kind = "return"
    THEN [cache |-> store_result(c, cache_key(q.state, q.license_number, q.business_name), out.val),
          ret |-> Return(out.val)]
    ELSE [cache |-> c, ret |-> out]

\* As verify_license_end, without the call of store_result.
verify_license_end_no_store(c, q, out) ==
    IF out.kind = "return"
    THEN [cache |-> c, ret |-> Return(out.val)]
    ELSE [cache |-> c, ret |-> Return(ErrorResult(out.msg, q.license_number))]

\* As verify_license_end, with store_result after the try/except, so that
\* an Error result is stored as well.
verify_license_end_store_all(c, q, out) ==
    LET r == IF out.kind = "return" THEN out.val
             ELSE ErrorResult(out.msg, q.license_number)
    IN  [cache |-> store_result(c, cache_key(q.state, q.license_number, q.business_name), r),
         ret |-> Return(r)]

\* As verify_license_end, single-flight: the first result stored under a key
\* stays, and a later call with that key returns it.
verify_license_end_keep_first(c, q, out) ==
    LET cached == get_cached_result(c, cache_key(q.state, q.license_number, q.business_name))
    IN  IF out.kind = "return"
        THEN IF cached.hit
             THEN [cache |-> c, ret |-> Return(cached.val)]
             ELSE [cache |-> store_result(c, cache_key(q.state, q.license_number,
                                                       q.business_name), out.val),
                   ret |-> Return(out.val)]
        ELSE [cache |-> c,
              ret |-> Return(ErrorResult(out.msg, q.license_number))]

\* verify_license from the driver's completion on: a result is stored under
\* the key computed at entry and returned; an exception becomes an Error
\* result and nothing is stored.
verify_license_end(c, q, out) ==
    IF out.kind = "return"
    THEN [cache |-> store_result(c, cache_key(q.state, q.license_number, q.business_name), out.val),
          ret |-> Return(out.val)]
    ELSE [cache |-> c,
          ret |-> Return(ErrorResult(out.msg, q.license_number))]

-----------------------------------------------------------------------------
\* Batch coordinator (verify_batch) and the endpoints of main.py

\* As gather, with the outcomes in completion order (asyncio.as_completed).
gather_as_completed(ts, first, n, fin) ==
    [i \in 1..n |-> IF i <= Len(fin) THEN ts[first + fin[i] - 1].ret
                    ELSE ts[first + i - 1].ret]

\* asyncio.gather(*tasks, return_exceptions=True): the outcomes of the n
\* tasks created from index `first` on, by position.  `fin` lists the
\* positions in the order in which their tasks completed.
gather(ts, first, n, fin) == [i \in 1..n |-> ts[first + i - 1].ret]

\* As processed_results, with the license number of the Error result taken
\* from the exception, which carries none.
processed_results_no_ln(results, requests) ==
    [i \in 1..Len(results) |->
        IF results[i].kind = "raise"
        THEN ErrorResult(results[i].msg, None)
        ELSE results[i].val]

\* The loop of lines 197-208 over gather's list.
processed_results(results, requests) ==
    [i \in 1..Len(results) |->
        IF results[i].kind = "raise"
        THEN ErrorResult(results[i].msg, requests[i].license_number)
        ELSE results[i].val]

\* main.verify: the result, or HTTP 500 when verify_license raises.
verify(ret) ==
    IF ret.kind = "return"
    THEN [kind |-> "ok", body |-> ret.val]
    ELSE [kind |-> "http500", detail |-> ret.msg]

-----------------------------------------------------------------------------
\* The queries the clients send.

Query(state, license_number, business_name) ==
    [state |-> state, license_number |-> license_number, business_name |-> business_name]

L123456 == <<"1", "2", "3", "4", "5", "6">>

Queries ==
    { Query(<<"c", "a">>, Some(L123456), None),
      Query(CA, Some(L123456), None),
      Query(TX, None, Some(<<"N", "o", "n", "e">>)),
      Query(TX, None, None),
      Query(FL, Some(<<"_">>), None),
      Query(FL, Some(<<>>), Some(<<"_", "N", "o", "n", "e">>)),
      Query(FL \o <<"_">>, Some(<<>>), Some(<<"N", "o", "n", "e">>)),
      Query(<<"z", "z">>, Some(L123456), None),
      Query(<<>>, Some(L123456), None) }

\* The request lists of n queries.
Batches(n) == [1..n -> Queries]

\* What the sites do while the orchestrator is observed: a page with every
\* field and one with a free-text status, a missing and an unreadable field;
\* a fault before the driver's try block and one inside it; one body and a
\* transport fault.
SitePages ==
    { [status |-> Text("Active"), name |-> Text("Acme Co"), expires |-> Text("2030-01-01")],
      [status |-> Text("ACTIVE"), name |-> Missing, expires |-> Faulty] }
SiteFaults == {"none", "launch", "goto"}
SiteHandlerFaults == BOOLEAN
SiteBodies == { <<"E", "X", "P", "I", "R", "E", "D">> }
SitePostFaults == {"none", "post"}

-----------------------------------------------------------------------------
\* State

VARIABLES
    cache,      \* the result cache: key -> result
    tasks,      \* the verify_license coroutines created so far
    calls,      \* the endpoint calls made so far, with their responses
    runs,       \* the Interactive driver's invocations, followed step by step
    sessions,   \* the browsers launched: still open or not, and the calls
                \* of browser.close() made on each
    posts       \* the Form-Submit driver's invocations, followed step by step

vars == <<cache, tasks, calls, runs, sessions, posts>>

\* A coroutine of verify_license for query q, run up to its first await;
\* `out` keeps what the driver it awaits ends with.
\* The event loop runs a coroutine without interruption from one await to
\* the next, and the cache lookup, the validation and the registry lookup
\* hold no await.
NewTask(c, q) ==
    LET b == verify_license_begin(c, q)
    IN  [q |-> q, pc |-> b.pc, ret |-> b.ret, drv |-> b.drv, out |-> Pending]

Init ==
    /\ cache = <<>>
    /\ tasks = <<>>
    /\ calls = <<>>
    /\ runs = <<>>
    /\ sessions = <<>>
    /\ posts = <<>>

\* POST /verify: verify_license runs inside the handler.
Verify(q) ==
    /\ Len(tasks) < MaxTasks
    /\ LET t == NewTask(cache, q)
       IN  /\ tasks' = Append(tasks, t)
           /\ calls' = Append(calls,
                  [kind |-> "verify", first |-> Len(tasks) + 1, n |-> 1, fin |-> <<>>,
                   resp |-> IF t.pc = "done" THEN verify(t.ret) ELSE Pending])
    /\ UNCHANGED <<cache, runs, sessions, posts>>

\* The positions of ts, in order, whose coroutine has already ended.
EndedAtStart(ts) ==
    LET RECURSIVE upto(_)
        upto(k) == IF k = 0 THEN <<>>
                   ELSE IF ts[k].pc = "done" THEN Append(upto(k - 1), k)
                   ELSE upto(k - 1)
    IN  upto(Len(ts))

\* POST /verify_batch: one coroutine per request, handed to gather, which
\* makes them tasks; the event loop starts tasks in creation order, one
\* right after the other, and none of them writes the cache before its
\* first await.
VerifyMultiple(requests) ==
    /\ Len(tasks) + Len(requests) <= MaxTasks
    /\ LET ts == [i \in 1..Len(requests) |-> NewTask(cache, requests[i])]
       IN  /\ tasks' = tasks \o ts
           /\ calls' = Append(calls,
                  [kind |-> "batch", first |-> Len(tasks) + 1, n |-> Len(requests),
                   fin |-> EndedAtStart(ts), resp |-> Pending])
    /\ UNCHANGED <<cache, runs, sessions, posts>>

\* The call that created coroutine i.
CallOf(i) == CHOOSE c \in 1..Len(calls) :
                 calls[c].first <= i /\ i < calls[c].first + calls[c].n

\* Coroutine i has ended with `ret`: main.verify answers at once, a batch
\* notes the completion and waits for the rest.
Finished(i, ret) ==
    LET c == CallOf(i)
    IN  IF calls[c].kind = "verify"
        THEN [calls EXCEPT ![c].resp = verify(ret)]
        ELSE [calls EXCEPT ![c].fin = Append(@, i - calls[c].first + 1)]

\* The driver awaited by coroutine i completes with outcome `d`.
Complete(i, d) ==
    LET e == verify_license_end(cache, tasks[i].q, d)
    IN  /\ cache' = e.cache
        /\ tasks' = [tasks EXCEPT ![i].pc = "done", ![i].ret = e.ret, ![i].out = d]
        /\ calls' = Finished(i, e.ret)
        /\ UNCHANGED <<runs, sessions, posts>>

PlaywrightDone(i) ==
    /\ tasks[i].pc = "driver"
    /\ tasks[i].drv = "playwright"
    /\ \E page \in SitePages, fault \in SiteFaults, hfault \in SiteHandlerFaults :
          /\ hfault => PwFaultAt(tasks[i].q.license_number, fault) \in PwTrySteps
          /\ Complete(i, verify_license_playwright(
                 STATE_CONFIGS[upper(tasks[i].q.state)], tasks[i].q.license_number,
                 tasks[i].q.business_name, page, fault, hfault))

RequestsDone(i) ==
    /\ tasks[i].pc = "driver"
    /\ tasks[i].drv = "requests"
    /\ \E body \in SiteBodies, fault \in SitePostFaults :
          Complete(i, verify_license_requests(
              STATE_CONFIGS[upper(tasks[i].q.state)], tasks[i].q.license_number,
              tasks[i].q.business_name, body, fault))

\* gather's future resolves: verify_batch builds its list and returns.
BatchReturn(c) ==
    /\ calls[c].kind = "batch"
    /\ calls[c].resp = Pending
    /\ \A i \in calls[c].first..(calls[c].first + calls[c].n - 1) : tasks[i].pc = "done"
    /\ LET requests == [i \in 1..calls[c].n |-> tasks[calls[c].first + i - 1].q]
           results == gather(tasks, calls[c].first, calls[c].n, calls[c].fin)
       IN  calls' = [calls EXCEPT
               ![c].resp = [kind |-> "ok", body |-> processed_results(results, requests)]]
    /\ UNCHANGED <<cache, tasks, runs, sessions, posts>>

Next ==
    \/ \E q \in Queries : Verify(q)
    \/ \E n \in 1..(MaxTasks - Len(tasks)) :
          \E requests \in Batches(n) : VerifyMultiple(requests)
    \/ \E i \in 1..Len(tasks) : PlaywrightDone(i)
    \/ \E i \in 1..Len(tasks) : RequestsDone(i)
    \/ \E c \in 1..Len(calls) : BatchReturn(c)

Spec == Init /\ [][Next]_vars

-----------------------------------------------------------------------------
\* The executions in which calls of verify_license do not overlap: a call
\* begins only when every earlier one has ended.

\* No call of verify_license is awaiting its driver.
Quiet == \A i \in 1..Len(tasks) : tasks[i].pc = "done"

\* Of the coroutines the step creates, only the last may be left awaiting.
OneAtATime == \A i \in (Len(tasks) + 1)..(Len(tasks') - 1) : tasks'[i].pc = "done"

SeqNext ==
    \/ \E q \in Queries : Quiet /\ Verify(q)
    \/ \E n \in 1..(MaxTasks - Len(tasks)) :
          \E requests \in Batches(n) : Quiet /\ VerifyMultiple(requests) /\ OneAtATime
    \/ \E i \in 1..Len(tasks) : PlaywrightDone(i)
    \/ \E i \in 1..Len(tasks) : RequestsDone(i)
    \/ \E c \in 1..Len(calls) : BatchReturn(c)

SeqSpec == Init /\ [][SeqNext]_vars

-----------------------------------------------------------------------------
\* The Interactive driver, one awaited call at a time.  Invocations
\* interleave at their awaits; each call may complete or fault.

\* A page on which no configured element exists.
BlankPage == [status |-> Missing, name |-> Missing, expires |-> Missing]

\* The step after `pc` when `pc` completes: page.fill is skipped for a
\* falsy license_number, and the loop over result_selectors follows the
\* screenshot.
PwNextStep(pc, license_number) ==
    CASE pc = "start" -> "launch"
      [] pc = "launch" -> "new_page"
      [] pc = "new_page" -> "goto"
      [] pc = "goto" -> IF Truthy(license_number) THEN "fill" ELSE "click"
      [] pc = "fill" -> "click"
      [] pc = "click" -> "wait"
      [] pc = "wait" -> "screenshot"
      [] pc = "screenshot" -> "extract"
      [] pc = "extract" -> "close"
      [] OTHER -> "done"

\* browser.close() is called on session b and completes (released) or faults.
CloseCalled(ss, b, released) ==
    [ss EXCEPT ![b] = [open |-> @.open /\ ~released, closes |-> @.closes + 1]]

\* verify_license_playwright is called.
PwCall(license_number) ==
    /\ Len(runs) < MaxTasks
    /\ runs' = Append(runs,
           [license_number |-> license_number, pc |-> "start", browser |-> 0,
            page |-> BlankPage, cause |-> "none", out |-> Pending])
    /\ UNCHANGED <<sessions, cache, tasks, calls, posts>>

\* The awaited call at which run r stands completes.
PwAdvance(r) ==
    /\ runs[r].pc \in {PwSteps[k] : k \in 1..Len(PwSteps)}
    /\ LET next == PwNextStep(runs[r].pc, runs[r].license_number)
       IN  CASE runs[r].pc = "launch" ->
                  /\ sessions' = Append(sessions, [open |-> TRUE, closes |-> 0])
                  /\ runs' = [runs EXCEPT ![r].pc = next, ![r].browser = Len(sessions) + 1]
             [] runs[r].pc = "close" ->
                  /\ sessions' = CloseCalled(sessions, runs[r].browser, TRUE)
                  /\ runs' = [runs EXCEPT ![r].pc = "done",
                                 ![r].out = PwOutcome(runs[r].license_number,
                                                      runs[r].page, "none", FALSE)]
             [] OTHER ->
                  /\ runs' = [runs EXCEPT ![r].pc = next]
                  /\ UNCHANGED sessions
    /\ UNCHANGED <<cache, tasks, calls, posts>>

\* The awaited call at which run r stands faults: before the try block the
\* exception leaves the function, inside it the handler is entered.
PwFault(r) ==
    /\ runs[r].pc \in {PwSteps[k] : k \in 1..Len(PwSteps)}
    /\ IF runs[r].pc \in PwTrySteps
       THEN /\ runs' = [runs EXCEPT ![r].pc = "handler", ![r].cause = runs[r].pc]
            /\ sessions' = IF runs[r].pc = "close"
                           THEN CloseCalled(sessions, runs[r].browser, FALSE)
                           ELSE sessions
       ELSE /\ runs' = [runs EXCEPT ![r].pc = "done", ![r].cause = runs[r].pc,
                           ![r].out = PwOutcome(runs[r].license_number, runs[r].page,
                                                runs[r].pc, FALSE)]
            /\ UNCHANGED sessions
    /\ UNCHANGED <<cache, tasks, calls, posts>>

\* The loop over result_selectors reads the page; a fault in it is caught
\* inside the loop.
PwExtract(r, page) ==
    /\ runs[r].pc = "extract"
    /\ runs' = [runs EXCEPT ![r].pc = "close", ![r].page = page]
    /\ UNCHANGED <<sessions, cache, tasks, calls, posts>>

\* The except handler: browser.close(), then the wrapped exception is
\* raised; if browser.close() faults, its exception leaves instead.
PwHandler(r, hfault) ==
    /\ runs[r].pc = "handler"
    /\ sessions' = CloseCalled(sessions, runs[r].browser, ~hfault)
    /\ runs' = [runs EXCEPT ![r].pc = "done",
                   ![r].out = PwOutcome(runs[r].license_number, runs[r].page,
                                        runs[r].cause, hfault)]
    /\ UNCHANGED <<cache, tasks, calls, posts>>

DriverNext ==
    \/ \E license_number \in {None, Some(L123456)} : PwCall(license_number)
    \/ \E r \in 1..Len(runs) : PwAdvance(r)
    \/ \E r \in 1..Len(runs) : PwFault(r)
    \/ \E r \in 1..Len(runs), page \in Pages : PwExtract(r, page)
    \/ \E r \in 1..Len(runs), hfault \in BOOLEAN : PwHandler(r, hfault)

DriverSpec == Init /\ [][DriverNext]_vars

-----------------------------------------------------------------------------
\* The Form-Submit driver, one awaited call at a time: session.post, then
\* response.text.  Either may fault, and both are inside the try block.

\* verify_license_requests is called.
RqCall(license_number) ==
    /\ Len(posts) < MaxTasks
    /\ posts' = Append(posts,
           [license_number |-> license_number, pc |-> "post", body |-> <<>>,
            out |-> Pending])
    /\ UNCHANGED <<cache, tasks, calls, runs, sessions>>

\* session.post completes: the response is there, its body not yet read.
RqPosted(r) ==
    /\ posts[r].pc = "post"
    /\ posts' = [posts EXCEPT ![r].pc = "text"]
    /\ UNCHANGED <<cache, tasks, calls, runs, sessions>>

\* response.text completes with `body`: the body is classified and the
\* result returned.
RqRead(r, body) ==
    /\ posts[r].pc = "text"
    /\ posts' = [posts EXCEPT ![r].pc = "done", ![r].body = body,
                     ![r].out = verify_license_requests(
                         STATE_CONFIGS[FL], posts[r].license_number, None, body, "none")]
    /\ UNCHANGED <<cache, tasks, calls, runs, sessions>>

\* The awaited call at which invocation r stands faults: the handler wraps
\* the exception and raises.
RqFault(r) ==
    /\ posts[r].pc \in RqFaults \ {"none"}
    /\ posts' = [posts EXCEPT ![r].pc = "done",
                     ![r].out = verify_license_requests(
                         STATE_CONFIGS[FL], posts[r].license_number, None, <<>>,
                         posts[r].pc)]
    /\ UNCHANGED <<cache, tasks, calls, runs, sessions>>

FormNext ==
    \/ \E license_number \in {None, Some(L123456)} : RqCall(license_number)
    \/ \E r \in 1..Len(posts) : RqPosted(r)
    \/ \E r \in 1..Len(posts), body \in Bodies : RqRead(r, body)
    \/ \E r \in 1..Len(posts) : RqFault(r)

FormSpec == Init /\ [][FormNext]_vars

-----------------------------------------------------------------------------
\* Properties

Done(i) == tasks[i].pc = "done"

KeyOf(q) == cache_key(q.state, q.license_number, q.business_name)

\* A query that cannot pass validation: no state, or neither a license
\* number nor a business name.
FailsValidation(q) ==
    \/ q.state = <<>>
    \/ /\ q.license_number \in {None, Some(<<>>)}
       /\ q.business_name \in {None, Some(<<>>)}

ValidationMessages ==
    { Msg("State is required", <<>>),
      Msg("Either license number or business name is required", <<>>) }

\* The coroutines a step creates.
Created == (Len(tasks) + 1)..Len(tasks')

C3_UnsupportedStateIsReported ==
    \A i \in 1..Len(tasks) :
        ( /\ Done(i)
          /\ ~FailsValidation(tasks[i].q)
          /\ upper(tasks[i].q.state) \notin DOMAIN STATE_CONFIGS ) =>
        /\ tasks[i].drv = "none"
        /\ tasks[i].ret.kind = "return"
        /\ tasks[i].ret.val.status = "Unsupported"
        /\ ~tasks[i].ret.val.verified
        /\ {tasks[i].ret.val.supported_states[k] :
               k \in 1..Len(tasks[i].ret.val.supported_states)} = DOMAIN STATE_CONFIGS

\* C4: a call that finds an entry under its key returns that entry, ends at
\* once and invokes no driver; and a call whose driver succeeds leaves the
\* result it returns in the cache under its key.  So a query issued again
\* right after its first call's driver succeeded gets the identical result
\* with no driver invocation.
C4_SecondCallIsCacheHit ==
    [][ /\ \A i \in Created : KeyOf(tasks'[i].q) \in DOMAIN cache =>
              /\ tasks'[i].pc = "done"
              /\ tasks'[i].drv = "none"
              /\ tasks'[i].ret = Return(cache[KeyOf(tasks'[i].q)])
        /\ \A i \in 1..Len(tasks) :
              ( /\ tasks[i].pc = "driver"
                /\ tasks'[i].pc = "done"
                /\ tasks'[i].ret.kind = "return"
                /\ tasks'[i].ret.val.verified ) =>
              /\ KeyOf(tasks[i].q) \in DOMAIN cache'
              /\ cache'[KeyOf(tasks[i].q)] = tasks'[i].ret.val ]_vars

\* C4 witness: a valid query was issued twice; the first call invoked a
\* driver, which succeeded, and the second returned the same result without
\* invoking one.
C4_Witness ==
    \E i, j \in 1..Len(tasks) :
        /\ i < j
        /\ tasks[i].q = tasks[j].q
        /\ ~FailsValidation(tasks[i].q)
        /\ Done(i) /\ Done(j)
        /\ tasks[i].drv # "none"
        /\ tasks[i].ret.kind = "return"
        /\ tasks[i].ret.val.verified
        /\ tasks[j].drv = "none"
        /\ tasks[j].ret = tasks[i].ret

\* C5 (as claimed): a result a driver produced is in the cache under the key
\* built from the uppercased state (state "ca" with license 123456 under
\* "CA_123456_None").
C5_KeyIsNormalized ==
    \A i \in 1..Len(tasks) :
        ( /\ Done(i)
          /\ tasks[i].drv # "none"
          /\ tasks[i].ret.kind = "return"
          /\ tasks[i].ret.val.verified ) =>
        cache_key(upper(tasks[i].q.state), tasks[i].q.license_number,
                  tasks[i].q.business_name) \in DOMAIN cache

\* The result verify_batch gives for a coroutine that has ended.
SlotOf(t) ==
    IF t.ret.kind = "return" THEN t.ret.val
    ELSE [status |-> "Error", message |-> t.ret.msg,
          license_number |-> t.q.license_number, verified |-> FALSE]

Answered(c) == calls[c].kind = "batch" /\ calls[c].resp # Pending

\* C6: the list verify_batch returns is as long as its input, and its entry
\* at each index is the result of the coroutine created for the query at
\* that index, whatever the order of completion.
C6_BatchOrderPreserved ==
    \A c \in 1..Len(calls) : Answered(c) =>
        /\ calls[c].resp.kind = "ok"
        /\ Len(calls[c].resp.body) = calls[c].n
        /\ \A k \in 1..calls[c].n :
              calls[c].resp.body[k] = SlotOf(tasks[calls[c].first + k - 1])

\* C6 witness: a batch of two has been answered whose second coroutine
\* completed before its first, with different results.
C6_Witness ==
    \E c \in 1..Len(calls) :
        /\ Answered(c)
        /\ calls[c].n = 2
        /\ calls[c].fin = <<2, 1>>
        /\ calls[c].resp.body[1] # calls[c].resp.body[2]

\* A coroutine that ended in failure: it raised, or its driver faulted.
Failed(t) ==
    /\ t.pc = "done"
    /\ \/ t.ret.kind = "raise"
       \/ t.ret.kind = "return" /\ t.ret.val.status = "Error"

\* C7: in an answered batch every coroutine has ended; the slot of one that
\* failed is an Error result, not verified, with that query's license
\* number, and every other slot is what its own coroutine returned; and the
\* step in which a coroutine fails changes no other coroutine and not the
\* cache.
C7_BatchFaultIsolation ==
    /\ [](\A c \in 1..Len(calls) : Answered(c) =>
            /\ calls[c].resp.kind = "ok"
            /\ \A k \in 1..calls[c].n :
                  LET t == tasks[calls[c].first + k - 1]
                      r == calls[c].resp.body[k]
                  IN  /\ t.pc = "done"
                      /\ Failed(t) =>
                            /\ r.status = "Error"
                            /\ ~r.verified
                            /\ r.license_number = t.q.license_number
                      /\ ~Failed(t) => r = t.ret.val)
    /\ [][\A i \in 1..Len(tasks) :
            (tasks[i].pc # "done" /\ Failed(tasks'[i])) =>
                /\ cache' = cache
                /\ \A j \in 1..Len(tasks) : j # i => tasks'[j] = tasks[j]]_vars

\* C7 witness: an answered batch of two in which one item raised, its slot
\* an Error result with that item's license number, and the other item's
\* slot is a verified result.
C7_Witness ==
    \E c \in 1..Len(calls) :
        /\ Answered(c)
        /\ calls[c].n = 2
        /\ \E k, m \in 1..2 :
              /\ tasks[calls[c].first + k - 1].ret.kind = "raise"
              /\ tasks[calls[c].first + k - 1].q.license_number # None
              /\ calls[c].resp.body[k].status = "Error"
              /\ calls[c].resp.body[m].verified

\* C8: when the driver a call awaited ends without a verified result, the
\* call returns status Error, verified false, a message with the cause and
\* the license number of its query, and leaves the cache unchanged.
C8_DriverFailureIsErrorAndUncached ==
    [][\A i \in 1..Len(tasks) :
          ( /\ tasks[i].pc = "driver"
            /\ tasks'[i].pc = "done"
            /\ ~(tasks'[i].ret.kind = "return" /\ tasks'[i].ret.val.verified) ) =>
          /\ tasks'[i].ret.kind = "return"
          /\ tasks'[i].ret.val.status = "Error"
          /\ ~tasks'[i].ret.val.verified
          /\ tasks'[i].ret.val.license_number = tasks[i].q.license_number
          /\ tasks'[i].ret.val.message.arg # <<>>
          /\ cache' = cache]_vars

\* C8 witness: a call whose driver faulted has returned an Error result and
\* the cache has no entry under its key.
C8_Witness ==
    \E i \in 1..Len(tasks) :
        /\ Done(i)
        /\ tasks[i].drv # "none"
        /\ tasks[i].ret.kind = "return"
        /\ tasks[i].ret.val.status = "Error"
        /\ KeyOf(tasks[i].q) \notin DOMAIN cache

ClosedStatuses == {"Active", "Expired", "Invalid", "Unsupported", "Error", "Unknown"}

\* C9 (as claimed): every result a call returns has a status of the closed
\* set, and the result of a successful driver run is verified.
C9_StatusInClosedSet ==
    \A i \in 1..Len(tasks) : (Done(i) /\ tasks[i].ret.kind = "return") =>
        /\ tasks[i].ret.val.status \in ClosedStatuses
        /\ (tasks[i].drv # "none" /\ tasks[i].ret.val.status # "Error") =>
              tasks[i].ret.val.verified

ResultKey == [status |-> "status", name |-> "business_name", expires |-> "expires"]

\* An invocation of the Interactive driver that ran to its end with no fault
\* outside the loop over result_selectors.
Extracted(r) == runs[r].pc = "done" /\ runs[r].cause = "none"

\* C11 (as claimed): an invocation that read the page returns a verified
\* result in which a field whose element is missing is "Not found" and
\* every field whose element is there has its text.
C11_MissingFieldIsNotFound ==
    \A r \in 1..Len(runs) : Extracted(r) =>
        /\ runs[r].out.kind = "return"
        /\ runs[r].out.val.verified
        /\ \A f \in DOMAIN ResultKey :
              LET o == runs[r].page[f]
                  v == runs[r].out.val[ResultKey[f]]
              IN  /\ o.kind = "text" => v = o.text
                  /\ o.kind = "missing" => v = "Not found"

\* C11 (amended): an invocation that read the page returns a verified
\* result in which a field whose element is missing is "Unknown", a field
\* whose element could not be read is "Not found", and every field whose
\* element is there has its text.
C11_MissingFieldIsUnknown ==
    \A r \in 1..Len(runs) : Extracted(r) =>
        /\ runs[r].out.kind = "return"
        /\ runs[r].out.val.verified
        /\ \A f \in DOMAIN ResultKey :
              LET o == runs[r].page[f]
                  v == runs[r].out.val[ResultKey[f]]
              IN  /\ o.kind = "text" => v = o.text
                  /\ o.kind = "missing" => v = "Unknown"
                  /\ o.kind = "fault" => v = "Not found"

\* C11 witness: an invocation has returned a verified result from a page
\* with the status element there, the name element missing and the expiry
\* element unreadable.
C11_Witness ==
    \E r \in 1..Len(runs) :
        /\ Extracted(r)
        /\ runs[r].page.status.kind = "text"
        /\ runs[r].page.name.kind = "missing"
        /\ runs[r].page.expires.kind = "fault"
        /\ runs[r].out.kind = "return"
        /\ runs[r].out.val.verified
        /\ runs[r].out.val.status = runs[r].page.status.text
        /\ runs[r].out.val.business_name = "Unknown"
        /\ runs[r].out.val.expires = "Not found"

\* The body, read without regard to case, holds the lowercase word w.
Occurs(w, body) ==
    \E i \in 1..Len(body) :
        /\ i + Len(w) - 1 <= Len(body)
        /\ \A j \in 1..Len(w) : LowerChar(body[i + j - 1]) = w[j]

LicenseExpiredBody ==
    <<"L", "i", "c", "e", "n", "s", "e", " ", "E", "X", "P", "I", "R", "E", "D", " ",
      "f", "o", "r", " ", "t", "h", "i", "s", " ",
      "c", "o", "n", "t", "r", "a", "c", "t", "o", "r">>

\* C12: an invocation of the Form-Submit driver that read the response body
\* returns a verified result with no screenshot, whose status is Active if
\* the body holds "active" in any case, otherwise Expired if it holds
\* "expired", otherwise Invalid if it holds "invalid", otherwise Unknown.
C12_StatusByPriorityScan ==
    \A r \in 1..Len(posts) : (posts[r].pc = "done" /\ posts[r].out.kind = "return") =>
        /\ posts[r].out.val.verified
        /\ "screenshot_data" \notin DOMAIN posts[r].out.val
        /\ posts[r].out.val.status =
              IF Occurs(<<"a", "c", "t", "i", "v", "e">>, posts[r].body) THEN "Active"
              ELSE IF Occurs(<<"e", "x", "p", "i", "r", "e", "d">>, posts[r].body) THEN "Expired"
              ELSE IF Occurs(<<"i", "n", "v", "a", "l", "i", "d">>, posts[r].body) THEN "Invalid"
              ELSE "Unknown"

\* C12 witness: one invocation read "License EXPIRED for this contractor"
\* and returned Expired, verified and with no screenshot; another read a
\* body with both "expired" and "active" in it and returned Active.
C12_Witness ==
    /\ \E r \in 1..Len(posts) :
          /\ posts[r].pc = "done"
          /\ posts[r].body = LicenseExpiredBody
          /\ posts[r].out.kind = "return"
          /\ posts[r].out.val.status = "Expired"
          /\ posts[r].out.val.verified
          /\ "screenshot_data" \notin DOMAIN posts[r].out.val
    /\ \E r \in 1..Len(posts) :
          /\ posts[r].pc = "done"
          /\ Occurs(<<"e", "x", "p", "i", "r", "e", "d">>, posts[r].body)
          /\ posts[r].out.kind = "return"
          /\ posts[r].out.val.status = "Active"

\* Coroutine i invoked a driver that succeeded, and so wrote the cache.
Wrote(i) ==
    /\ Done(i)
    /\ tasks[i].drv # "none"
    /\ tasks[i].out.kind = "return"

\* Position k completed before position m.
Before(fin, k, m) ==
    \E a, b \in 1..Len(fin) : a < b /\ fin[a] = k /\ fin[b] = m

\* C13: every call whose driver succeeded returns that driver's result; and
\* when two items of one batch with the same query both invoked a driver
\* that succeeded, and no third call wrote their key, the cache holds under
\* that key the result of the one that completed last, and the batch's
\* answer has each one's own result in its slot.
C13_LastWriteWins ==
    /\ \A i \in 1..Len(tasks) : Wrote(i) => tasks[i].ret = Return(tasks[i].out.val)
    /\ \A c \in 1..Len(calls) : calls[c].kind = "batch" =>
          \A k, m \in 1..calls[c].n :
              LET i == calls[c].first + k - 1
                  j == calls[c].first + m - 1
              IN  ( /\ tasks[i].q = tasks[j].q
                    /\ Wrote(i) /\ Wrote(j)
                    /\ Before(calls[c].fin, k, m)
                    /\ \A t \in 1..Len(tasks) :
                          (t \notin {i, j} /\ Wrote(t)) => KeyOf(tasks[t].q) # KeyOf(tasks[i].q) ) =>
                  /\ KeyOf(tasks[i].q) \in DOMAIN cache
                  /\ cache[KeyOf(tasks[i].q)] = tasks[j].out.val
                  /\ Answered(c) =>
                        /\ calls[c].resp.body[k] = tasks[i].out.val
                        /\ calls[c].resp.body[m] = tasks[j].out.val

\* C13 witness: a batch of two equal queries has been answered; both items
\* missed the cache and invoked the driver, the two drivers returned
\* different results, the one that completed first is in its caller's slot
\* and the other one is in the cache.
C13_Witness ==
    \E c \in 1..Len(calls) :
        /\ Answered(c)
        /\ calls[c].n = 2
        /\ \E k, m \in 1..2 :
              LET i == calls[c].first + k - 1
                  j == calls[c].first + m - 1
              IN  /\ tasks[i].q = tasks[j].q
                  /\ Wrote(i) /\ Wrote(j)
                  /\ Before(calls[c].fin, k, m)
                  /\ tasks[i].out.val # tasks[j].out.val
                  /\ calls[c].resp.body[k] = tasks[i].out.val
                  /\ cache[KeyOf(tasks[i].q)] = tasks[j].out.val

\* C14: when calls do not overlap, no two calls write the same key, the
\* cache holds exactly the keys of the calls whose driver succeeded, each
\* with that call's result, and no step changes or removes an entry.
C14_WriteOncePerKey ==
    /\ [](/\ \A i, j \in 1..Len(tasks) :
               (i # j /\ Wrote(i) /\ Wrote(j)) => KeyOf(tasks[i].q) # KeyOf(tasks[j].q)
          /\ DOMAIN cache = {KeyOf(tasks[i].q) : i \in {j \in 1..Len(tasks) : Wrote(j)}}
          /\ \A i \in 1..Len(tasks) :
               Wrote(i) => cache[KeyOf(tasks[i].q)] = tasks[i].out.val)
    /\ [][\A k \in DOMAIN cache : k \in DOMAIN cache' /\ cache'[k] = cache[k]]_vars

\* C14 witness: a call's driver succeeded and wrote its key; a later call
\* with that key found the entry, returned it and invoked no driver, and the
\* entry is still the first call's result.
C14_Witness ==
    \E i, j \in 1..Len(tasks) :
        /\ i < j
        /\ Wrote(i)
        /\ KeyOf(tasks[j].q) = KeyOf(tasks[i].q)
        /\ Done(j)
        /\ tasks[j].drv = "none"
        /\ tasks[j].ret = Return(tasks[i].out.val)
        /\ cache[KeyOf(tasks[i].q)] = tasks[i].out.val

\* The driver the claim assigns to a query: Interactive for CA and TX,
\* Form-Submit for FL, none for any other state.
Strategy(q) ==
    CASE upper(q.state) \in {CA, TX} -> "playwright"
      [] upper(q.state) = FL -> "requests"
      [] OTHER -> "none"

\* The driver an outcome comes from, told by its shape: the Interactive
\* driver's result carries a screenshot and its wrapped fault reads "Error
\* scraping license data"; the Form-Submit driver's result carries raw_html
\* and its fault reads "Error verifying license".
MadeBy(out) ==
    IF out.kind = "return"
    THEN IF "screenshot_data" \in DOMAIN out.val THEN "playwright" ELSE "requests"
    ELSE IF out.msg.text = "Error verifying license: " THEN "requests" ELSE "playwright"

\* C15: a call begins by awaiting a driver exactly if its query passes
\* validation, its state is supported and its key has no entry, and then
\* the driver is the one of its state's strategy; otherwise it ends at once
\* with no driver.  A call that awaits gets one outcome, from that driver,
\* and ends with one result; a call that has ended never changes again.
C15_StrategyDispatch ==
    /\ [](\A i \in 1..Len(tasks) :
            /\ tasks[i].drv = "none" => (Done(i) /\ tasks[i].out = Pending)
            /\ tasks[i].drv # "none" =>
                  /\ tasks[i].drv = Strategy(tasks[i].q)
                  /\ ~FailsValidation(tasks[i].q)
                  /\ Done(i) <=> tasks[i].out # Pending
                  /\ Done(i) =>
                        /\ MadeBy(tasks[i].out) = Strategy(tasks[i].q)
                        /\ tasks[i].ret.kind = "return")
    /\ [][ /\ \A i \in Created :
                 LET q == tasks'[i].q
                 IN  tasks'[i].drv =
                        IF \/ KeyOf(q) \in DOMAIN cache
                           \/ FailsValidation(q)
                        THEN "none"
                        ELSE Strategy(q)
           /\ \A i \in 1..Len(tasks) :
                 /\ tasks'[i].drv = tasks[i].drv
                 /\ Done(i) => tasks'[i] = tasks[i] ]_vars

\* C15 witness: a call for CA has ended with the Interactive driver's
\* result and a call for FL with the Form-Submit driver's.
C15_Witness ==
    \E i, j \in 1..Len(tasks) :
        /\ upper(tasks[i].q.state) = CA
        /\ tasks[i].drv = "playwright"
        /\ Wrote(i)
        /\ "screenshot_data" \in DOMAIN tasks[i].ret.val
        /\ upper(tasks[j].q.state) = FL
        /\ tasks[j].drv = "requests"
        /\ Wrote(j)
        /\ "screenshot_data" \notin DOMAIN tasks[j].ret.val

\* C16: every cache entry is verified, is not one of the results
\* verify_license makes up itself (an Error or Unsupported result, which
\* carry a message), and is what the driver of some call with that key
\* returned.
C16_CacheHoldsDriverResultsOnly ==
    \A k \in DOMAIN cache :
        /\ cache[k].verified
        /\ "message" \notin DOMAIN cache[k]
        /\ \E i \in 1..Len(tasks) :
              /\ Wrote(i)
              /\ KeyOf(tasks[i].q) = k
              /\ cache[k] = tasks[i].out.val

\* C16 witness: of two calls with the same key, one has ended with an Error
\* result after its driver faulted and the other's driver succeeded; the
\* entry under the key is the second one's result.
C16_Witness ==
    \E i, j \in 1..Len(tasks) :
        /\ KeyOf(tasks[i].q) = KeyOf(tasks[j].q)
        /\ Done(i)
        /\ tasks[i].out.kind = "raise"
        /\ tasks[i].ret.val.status = "Error"
        /\ Wrote(j)
        /\ cache[KeyOf(tasks[j].q)] = tasks[j].out.val
        /\ cache[KeyOf(tasks[j].q)].verified

\* C17 (as claimed): a call that ended on a cache hit returned what a driver
\* produced for a call with the same query.
C17_HitReturnsOwnQueryResult ==
    \A i \in 1..Len(tasks) :
        (Done(i) /\ tasks[i].drv = "none" /\ tasks[i].ret.kind = "return"
                 /\ tasks[i].ret.val.verified) =>
        \E j \in 1..Len(tasks) :
            /\ Wrote(j)
            /\ tasks[j].q = tasks[i].q
            /\ tasks[i].ret.val = tasks[j].out.val

====
